---- MODULE Spec2Model ----
(***************************************************************************)
(* PlugnPlay grid engine: the two-layer GridEngine (entity table + grid),  *)
(* its EventBus, the tile registry, the built-in map editor, the host loop *)
(* and the plugin loader, modelled from src/script.js (lines 1-308), the   *)
(* variant kept in src/unnamed/part_000 and src/plugins/IcePlugin.js.      *)
(***************************************************************************)
EXTENDS Integers, Sequences, FiniteSets, TLC

\* the engine modelled is new GridEngine(W, H, tileSize): 2 x 2 cells where
\* the game builds 16 x 16
W == 2
H == 2

\* ------------------------------------------------------------------ bounds
\* at most MaxId entities are created
MaxId == 2
\* event bus: on() calls made by clients, handler invocations followed
\* inside one emit; systems added by clients
MaxListeners == 3
MaxEmitSteps == 4
MaxSystems == 2
\* tile registry: registerTile calls made after the two core tiles
MaxTiles == 3
\* plugin loader: symbols of a plugin list text, lines of the plugin lists
\* the loader is run on, entry points called
MaxLen == 5
MaxFiles == 2
MaxLoads == 2

\* priorities used by the repository: the default of on(), and the one the
\* ice plugin registers its afterTick handler with
DefaultPriority == 0
HighPriority == 10

VARIABLES
  variant,       \* which copy of the engine runs: "script.js" or "part_000"
  heap,          \* every entity object ever created, by allocation number
  entities,      \* GridEngine.entities: the keys of the Map (key k -> heap[k])
  grid,          \* GridEngine.grid: cell -> [ground, actor], 0 for null
  nextId,        \* GridEngine.nextId
  listeners,     \* EventBus.listeners: event type -> array of {fn, priority}
  systems,       \* GridEngine.systems
  Tiles,         \* the tile registry array
  selectedTile,  \* setupEditor: selectedTile
  hover,         \* setupEditor: hover (NoHover for null)
  enabled,       \* setupEditor: enabled
  input,         \* the input vector {dx, dy}
  player,        \* the id returned for the player entity (0: not created)
  subs,          \* number of on() calls made so far (history)
  issued,        \* the ids addEntity has returned so far (history)
  plugins,       \* PluginLoader.plugins
  ran,           \* the plugin files whose entry point was called (history)
  response,      \* what fetch(this.path) yields for the plugin list
  last           \* the last operation: its result and the events it published

vars == <<variant, heap, entities, grid, nextId, listeners, systems, Tiles,
          selectedTile, hover, enabled, input, player, subs, issued, plugins,
          ran, response, last>>

Null == 0
NoHover == <<-1, -1>>
NoField == ""

Cells == (0 .. W - 1) \X (0 .. H - 1)
EmptyCell == [ground |-> Null, actor |-> Null]
EventTypes == {"entityMoved", "entityBlocked", "afterTick"}

\* the id field of an entity object: the numeric id addEntity assigned, or
\* the string id of a tile template spread over it
NumId(k) == [num |-> k, tile |-> NoField]
TileId(s) == [num |-> 0, tile |-> s]

\* the slot of an entity object that does not exist (not yet created, or
\* dropped by the Map and by every cell)
Free == [id |-> NumId(0), x |-> 0, y |-> 0, solid |-> FALSE, locked |-> FALSE,
         ice |-> FALSE, iceDir |-> <<>>]

\* core tiles; only id and solid are read by the engine
WallTile == [id |-> "wall", solid |-> TRUE]
FloorTile == [id |-> "floor", solid |-> FALSE]
CoreTiles == <<WallTile, FloorTile>>
\* the tile the ice plugin registers
IceTile == [id |-> "ice", solid |-> FALSE]
\* tile definitions a caller of registerTile passes
TileDefs == {[id |-> i, solid |-> s] : i \in {"wall", "floor", "ice"}, s \in BOOLEAN}

\* registerTile(tile) on the registry array: Tiles.push(tile)
registerTile(tiles, tile) == Append(tiles, tile)

\* registerTile(tile) of the copy that keeps the registry in a Map, entries
\* in insertion order: Tiles.set(tile.id, Object.freeze(tile))
registerTileMap(tiles, tile) ==
  IF \E i \in 1 .. Len(tiles) : tiles[i].id = tile.id
  THEN [i \in 1 .. Len(tiles) |-> IF tiles[i].id = tile.id THEN tile ELSE tiles[i]]
  ELSE Append(tiles, tile)

\* attribute objects passed to addEntity without an id property
PlainData == {[id |-> NoField, solid |-> s] : s \in BOOLEAN}

InBounds(x, y) == ~(x < 0 \/ y < 0 \/ x >= W \/ y >= H)

\* a boolean property of an attribute object read after the spread: falsy
\* when the object does not carry it
Flag(data, f) == IF f \in DOMAIN data THEN data[f] ELSE FALSE
\* the _iceDir property: <<dx, dy>> for the object { dx, dy }, <<>> when the
\* entity has none
NoDir == <<>>
IceDirOf(data) == IF "iceDir" \in DOMAIN data THEN data.iceDir ELSE NoDir

\* the depth of nested calls the engine's stack holds: more than any slide
\* across the grid needs; a deeper recursion ends in a RangeError
StackLimit == W + H + 2

\* ---------------------------------------------------------------- EventBus
\* handlers: the editor's afterTick handler, and client handlers that do
\* nothing ("a"), throw, or subscribe handler "a" to the same event with the
\* default / the high priority
ClientFns == {"a", "thrower", "subLo", "subHi"}
Subscribers == {"subLo", "subHi"}
Priorities == {DefaultPriority, HighPriority}

\* Array.prototype.sort with (a, b) => b.priority - a.priority: stable,
\* descending.  The array is sorted before each push, so sorting is one
\* stable insertion.
RECURSIVE insertSorted(_, _)
insertSorted(arr, l) ==
  IF arr = <<>> THEN <<l>>
  ELSE IF arr[Len(arr)].priority - l.priority < 0
       THEN Append(insertSorted(SubSeq(arr, 1, Len(arr) - 1), l), arr[Len(arr)])
       ELSE Append(arr, l)

RECURSIVE sortDesc(_)
sortDesc(arr) ==
  IF arr = <<>> THEN <<>>
  ELSE insertSorted(sortDesc(SubSeq(arr, 1, Len(arr) - 1)), arr[Len(arr)])

\* on() appending without sorting
on_unsorted(b, type, fn, priority) ==
  [b EXCEPT !.listeners[type] =
              Append(@, [fn |-> fn, priority |-> priority, n |-> b.subs + 1]),
            !.subs = @ + 1]

\* on(type, fn, priority) on a bus state b = [listeners, subs, ...]; n is
\* the ordinal of the call (history, not read by the bus)
on(b, type, fn, priority) ==
  [b EXCEPT !.listeners[type] =
              sortDesc(Append(@, [fn |-> fn, priority |-> priority, n |-> b.subs + 1])),
            !.subs = @ + 1]

RECURSIVE moveEntity(_, _, _, _)

\* the ice plugin's entityMoved handler returning before it slides
IcePlugin_entityMoved_noSlide(b, data) == b

\* the ice plugin's entityMoved handler: e is the payload; the call of
\* engine.moveEntity is nested in the moveEntity that published the event
IcePlugin_entityMoved(b, data) ==
  LET e == b.heap[data]
  IN IF ~e.ice THEN b
     ELSE IF e.iceDir = NoDir THEN b
     ELSE IF b.depth >= StackLimit THEN [b EXCEPT !.threw = TRUE]
     ELSE LET r == moveEntity([b EXCEPT !.depth = @ + 1,
                                        !.deep = IF @ > b.depth THEN @ ELSE b.depth + 1],
                              e.id.num, e.iceDir[1], e.iceDir[2])
          IN [r EXCEPT !.depth = b.depth]

\* one handler call
invoke(b, type, l, data) ==
  CASE l.fn = "thrower" -> [b EXCEPT !.threw = TRUE]
    [] l.fn = "subLo" -> on(b, type, "a", DefaultPriority)
    [] l.fn = "subHi" -> on(b, type, "a", HighPriority)
    [] l.fn = "IcePlugin.entityMoved" -> IcePlugin_entityMoved(b, data)
    [] OTHER -> b

\* for (const { fn } of this.listeners[type] ?? []) fn(data): the array
\* iterator reads the live array at index i on every step
RECURSIVE emitLoop(_, _, _, _, _)
emitLoop(b, type, data, i, fuel) ==
  IF i > Len(b.listeners[type]) THEN b
  ELSE IF fuel = 0 THEN [b EXCEPT !.cut = TRUE]
  ELSE LET l == b.listeners[type][i]
           rest(b1) == IF b1.threw THEN b1
                       ELSE emitLoop(b1, type, data, i + 1, fuel - 1)
       IN CHOOSE b2 \in {rest(b1) : b1 \in
                           {invoke([b EXCEPT !.trace = Append(@, l)], type, l, data)}} :
            TRUE

\* emit(type, data) from engine state st; the event and the state it is
\* published in are logged (data: the entity's key, Null for the engine)
emit(st, type, data) ==
  emitLoop([st EXCEPT !.events =
              Append(@, [type |-> type, data |-> data,
                         x |-> IF data = Null THEN -1 ELSE st.heap[data].x,
                         y |-> IF data = Null THEN -1 ELSE st.heap[data].y,
                         grid |-> st.grid])],
           type, data, 1, MaxEmitSteps)

\* -------------------------------------------------------------- GridEngine
addEntity(st, data, x, y) ==
  IF x < 0 \/ y < 0 \/ x >= W \/ y >= H THEN [st EXCEPT !.ret = Null]
  ELSE LET id == st.nextId
           e == [id |-> IF data.id = NoField THEN NumId(id) ELSE TileId(data.id),
                 x |-> x, y |-> y, solid |-> data.solid,
                 locked |-> Flag(data, "locked"), ice |-> Flag(data, "ice"),
                 iceDir |-> IceDirOf(data)]
       IN [st EXCEPT !.nextId = id + 1,
                     !.issued = @ \cup {id},
                     !.heap[id] = e,
                     !.entities = @ \cup {id},
                     !.grid[<<x, y>>] = IF e.solid THEN [@ EXCEPT !.ground = id]
                                        ELSE [@ EXCEPT !.actor = id],
                     !.ret = id]

removeEntity(st, id) ==
  IF id \notin st.entities THEN st
  ELSE LET e == st.heap[id]
           c == <<e.x, e.y>>
           cell == st.grid[c]
       IN [st EXCEPT !.grid[c] = [ground |-> IF cell.ground = id THEN Null ELSE cell.ground,
                                  actor |-> IF cell.actor = id THEN Null ELSE cell.actor],
                     !.entities = @ \ {id}]

\* moveEntity with the solid-ground test left out
moveEntity_noSolidTest(st, id, dx, dy) ==
  IF id \notin st.entities THEN [st EXCEPT !.ret = FALSE, !.path = "unknown"]
  ELSE LET e == st.heap[id]
           nx == e.x + dx
           ny == e.y + dy
       IN IF nx < 0 \/ ny < 0 \/ nx >= W \/ ny >= H
          THEN [st EXCEPT !.ret = FALSE, !.path = "outOfBounds"]
          ELSE LET old == <<e.x, e.y>>
                   g1 == IF st.grid[old].actor = id
                         THEN [st.grid EXCEPT ![old].actor = Null]
                         ELSE st.grid
                   s1 == [st EXCEPT !.heap[id].x = nx,
                                    !.heap[id].y = ny,
                                    !.grid = [g1 EXCEPT ![<<nx, ny>>].actor = id]]
                   s2 == emit(s1, "entityMoved", id)
               IN IF s2.threw THEN s2
                  ELSE [s2 EXCEPT !.ret = TRUE, !.path = "moved"]

\* moveEntity treating a target outside the grid as a collision
moveEntity_blockedOutside(st, id, dx, dy) ==
  IF id \notin st.entities THEN [st EXCEPT !.ret = FALSE, !.path = "unknown"]
  ELSE LET e == st.heap[id]
           nx == e.x + dx
           ny == e.y + dy
       IN IF nx < 0 \/ ny < 0 \/ nx >= W \/ ny >= H
          THEN LET s1 == emit(st, "entityBlocked", id)
               IN IF s1.threw THEN s1
                  ELSE [s1 EXCEPT !.ret = FALSE, !.path = "outOfBounds"]
          ELSE LET target == st.grid[<<nx, ny>>]
               IN IF target.ground # Null /\ st.heap[target.ground].solid
                  THEN LET s1 == emit(st, "entityBlocked", id)
                       IN IF s1.threw THEN s1
                          ELSE [s1 EXCEPT !.ret = FALSE, !.path = "blocked"]
                  ELSE LET old == <<e.x, e.y>>
                           g1 == IF st.grid[old].actor = id
                                 THEN [st.grid EXCEPT ![old].actor = Null]
                                 ELSE st.grid
                           s1 == [st EXCEPT !.heap[id].x = nx,
                                            !.heap[id].y = ny,
                                            !.grid = [g1 EXCEPT ![<<nx, ny>>].actor = id]]
                           s2 == emit(s1, "entityMoved", id)
                       IN IF s2.threw THEN s2
                          ELSE [s2 EXCEPT !.ret = TRUE, !.path = "moved"]

\* moveEntity publishing entityMoved before the target cell is occupied
moveEntity_emitsEarly(st, id, dx, dy) ==
  IF id \notin st.entities THEN [st EXCEPT !.ret = FALSE, !.path = "unknown"]
  ELSE LET e == st.heap[id]
           nx == e.x + dx
           ny == e.y + dy
       IN IF nx < 0 \/ ny < 0 \/ nx >= W \/ ny >= H
          THEN [st EXCEPT !.ret = FALSE, !.path = "outOfBounds"]
          ELSE LET target == st.grid[<<nx, ny>>]
               IN IF target.ground # Null /\ st.heap[target.ground].solid
                  THEN LET s1 == emit(st, "entityBlocked", id)
                       IN IF s1.threw THEN s1
                          ELSE [s1 EXCEPT !.ret = FALSE, !.path = "blocked"]
                  ELSE LET old == <<e.x, e.y>>
                           g1 == IF st.grid[old].actor = id
                                 THEN [st.grid EXCEPT ![old].actor = Null]
                                 ELSE st.grid
                           s1 == [st EXCEPT !.heap[id].x = nx,
                                            !.heap[id].y = ny,
                                            !.grid = g1]
                           s2 == emit(s1, "entityMoved", id)
                       IN IF s2.threw THEN s2
                          ELSE [s2 EXCEPT !.grid[<<nx, ny>>].actor = id,
                                          !.ret = TRUE, !.path = "moved"]

\* path names the return statement the call leaves by
moveEntity(st, id, dx, dy) ==
  IF id \notin st.entities THEN [st EXCEPT !.ret = FALSE, !.path = "unknown"]
  ELSE LET e == st.heap[id]
           nx == e.x + dx
           ny == e.y + dy
       IN IF nx < 0 \/ ny < 0 \/ nx >= W \/ ny >= H
          THEN [st EXCEPT !.ret = FALSE, !.path = "outOfBounds"]
          ELSE LET target == st.grid[<<nx, ny>>]
               IN IF target.ground # Null /\ st.heap[target.ground].solid
                  THEN IF st.variant = "script.js"
                       THEN LET s1 == emit(st, "entityBlocked", id)
                            IN IF s1.threw THEN s1
                               ELSE [s1 EXCEPT !.ret = FALSE, !.path = "blocked"]
                       ELSE [st EXCEPT !.ret = FALSE, !.path = "blocked"]
                  ELSE LET old == <<e.x, e.y>>
                           g1 == IF st.grid[old].actor = id
                                 THEN [st.grid EXCEPT ![old].actor = Null]
                                 ELSE st.grid
                           s1 == [st EXCEPT !.heap[id].x = nx,
                                            !.heap[id].y = ny,
                                            !.grid = [g1 EXCEPT ![<<nx, ny>>].actor = id]]
                           s2 == emit(s1, "entityMoved", id)
                       IN IF s2.threw THEN s2
                          ELSE [s2 EXCEPT !.ret = TRUE, !.path = "moved"]

\* ----------------------------------------------------------- systems, tick
\* systems a client can add: the game's MovementSystem, and one whose
\* update does nothing
Systems == {"MovementSystem", "IdleSystem"}
NoInput == [dx |-> 0, dy |-> 0]

\* MovementSystem.update leaving the input vector as it found it
MovementSystem_update_keepsInput(st) ==
  IF st.input.dx # 0 \/ st.input.dy # 0
  THEN moveEntity([st EXCEPT !.calls = @ + 1], st.player, st.input.dx, st.input.dy)
  ELSE st

\* MovementSystem.update resetting the input vector only after a move that
\* succeeded
MovementSystem_update_retries(st) ==
  IF st.input.dx # 0 \/ st.input.dy # 0
  THEN LET s1 == moveEntity([st EXCEPT !.calls = @ + 1], st.player,
                            st.input.dx, st.input.dy)
       IN IF s1.threw \/ ~s1.ret THEN s1 ELSE [s1 EXCEPT !.input = NoInput]
  ELSE st

\* MovementSystem.update(engine); calls counts its moveEntity calls
MovementSystem_update(st) ==
  IF st.input.dx # 0 \/ st.input.dy # 0
  THEN LET s1 == moveEntity([st EXCEPT !.calls = @ + 1], st.player,
                            st.input.dx, st.input.dy)
       IN IF s1.threw THEN s1 ELSE [s1 EXCEPT !.input = NoInput]
  ELSE st

update(st, sys) ==
  IF sys = "MovementSystem" THEN MovementSystem_update(st) ELSE st

\* for (const sys of this.systems) sys.update(this, dt); every call and
\* every return is logged
RECURSIVE tickLoop(_, _)
tickLoop(st, i) ==
  IF i > Len(st.systems) THEN st
  ELSE LET sys == st.systems[i]
           s1 == update([st EXCEPT !.log = Append(@, <<"update", sys, i>>)], sys)
       IN IF s1.threw THEN s1
          ELSE tickLoop([s1 EXCEPT !.log = Append(@, <<"return", sys, i>>)], i + 1)

\* tick with afterTick published before the systems run
tick_emitsFirst(st) ==
  LET s1 == emit([st EXCEPT !.log = Append(@, <<"emit", "afterTick", 0>>)],
                 "afterTick", Null)
  IN IF s1.threw THEN s1 ELSE tickLoop(s1, 1)

\* tick(dt)
tick(st) ==
  LET s1 == tickLoop(st, 1)
  IN IF s1.threw THEN s1
     ELSE emit([s1 EXCEPT !.log = Append(@, <<"emit", "afterTick", 0>>)],
               "afterTick", Null)

\* one frame of the host loop: engine.tick(1), MovementSystem.update(engine)
\* on the state the tick leaves, then render, which only reads the engine
loop(st) ==
  LET rest(s1) == IF s1.threw THEN s1 ELSE MovementSystem_update(s1)
  IN CHOOSE s2 \in {rest(s1) : s1 \in {tick(st)}} : TRUE

\* ------------------------------------------------------------ PluginLoader
\* a text is a sequence of symbols: the newline, the blank, "#", or a word
\* (a run of other characters); a line, and so a file name, is a sequence
\* of symbols without the newline
NL == "\n"
Whitespace == {" "}
Symbols == {NL, " ", "#", "a"}

\* text.split("\n")
RECURSIVE split(_)
split(text) ==
  IF \A i \in 1 .. Len(text) : text[i] # NL THEN <<text>>
  ELSE LET i == CHOOSE j \in 1 .. Len(text) :
                  text[j] = NL /\ \A k \in 1 .. j - 1 : text[k] # NL
       IN <<SubSeq(text, 1, i - 1)>> \o split(SubSeq(text, i + 1, Len(text)))

\* l.trim()
RECURSIVE trim(_)
trim(l) ==
  IF l = <<>> THEN l
  ELSE IF l[1] \in Whitespace THEN trim(Tail(l))
  ELSE IF l[Len(l)] \in Whitespace THEN trim(SubSeq(l, 1, Len(l) - 1))
  ELSE l

startsWith(l, ch) == Len(l) > 0 /\ l[1] = ch

\* l && !l.startsWith("#")
keep(l) == l # <<>> /\ ~startsWith(l, "#")

\* fetchPluginList testing the lines as they are, without trim
fetchPluginList_noTrim(resp) ==
  IF ~resp.ok THEN <<>>
  ELSE SelectSeq(split(resp.text), keep)

\* fetchPluginList(): resp is what fetch(this.path) and res.text() yield;
\* a rejection of either is caught
fetchPluginList(resp) ==
  IF ~resp.ok THEN <<>>
  ELSE LET lines == split(resp.text)
       IN SelectSeq([i \in 1 .. Len(lines) |-> trim(lines[i])], keep)

\* the files a plugin list names: the plugin of src/plugins, a file that is
\* not there (import rejects), a plugin whose entry point throws, and a
\* module without a default function
IceFile == <<"IcePlugin.js">>
MissingFile == <<"MapEditorPlugin.js">>
BrokenFile == <<"Broken.js">>
DataFile == <<"Data.js">>
PluginFiles == {IceFile, MissingFile, BrokenFile, DataFile}

\* IcePlugin(engine): registers the ice tile and the entityMoved handler,
\* and flags the entity of the player's colour found in the table.  The
\* handler returns at once for an entity without ice or without _iceDir;
\* no entity object made here carries _iceDir.
IcePlugin(st) ==
  LET s1 == [st EXCEPT !.Tiles = registerTile(@, IceTile)]
      s2 == on(s1, "entityMoved", "IcePlugin.entityMoved", DefaultPriority)
  IN IF s2.player # Null /\ s2.player \in s2.entities
     THEN [s2 EXCEPT !.heap[s2.player].ice = TRUE]
     ELSE s2

\* loadPlugin letting the fault of import() or of the entry point through
loadPlugin_noCatch(st, file) ==
  LET s0 == [st EXCEPT !.log = Append(@, <<"loadPlugin", file>>)]
  IN CASE file = IceFile ->
            LET s1 == IcePlugin([s0 EXCEPT !.ran = Append(@, file)])
            IN [s1 EXCEPT !.plugins = Append(@, file),
                          !.log = Append(@, <<"loaded", file>>)]
       [] file = BrokenFile ->
            [s0 EXCEPT !.ran = Append(@, file), !.threw = TRUE]
       [] file = DataFile -> s0
       [] OTHER -> [s0 EXCEPT !.threw = TRUE]

\* loadPlugin(file): import, call of module.default, push; both faults are
\* caught and logged
loadPlugin(st, file) ==
  LET s0 == [st EXCEPT !.log = Append(@, <<"loadPlugin", file>>)]
  IN CASE file = IceFile ->
            LET s1 == IcePlugin([s0 EXCEPT !.ran = Append(@, file)])
            IN [s1 EXCEPT !.plugins = Append(@, file),
                          !.log = Append(@, <<"loaded", file>>)]
       [] file = BrokenFile ->
            [s0 EXCEPT !.ran = Append(@, file),
                       !.log = Append(@, <<"failed", file>>)]
       [] file = DataFile -> s0
       [] OTHER -> [s0 EXCEPT !.log = Append(@, <<"failed", file>>)]

\* for (const f of files) of loadAll; saved is the set of members of the
\* array passed
RECURSIVE loadAllLoop(_, _, _, _)
loadAllLoop(st, files, i, saved) ==
  IF i > Len(files) THEN st
  ELSE IF saved # {} /\ files[i] \notin saved
       THEN loadAllLoop(st, files, i + 1, saved)
       ELSE LET s1 == loadPlugin(st, files[i])
            IN IF s1.threw THEN s1 ELSE loadAllLoop(s1, files, i + 1, saved)

\* loadAll(saved)
loadAll(st, saved) == loadAllLoop(st, fetchPluginList(st.response), 1, saved)

\* ------------------------------------------------------------- state <-> st
\* the engine and bus state as one record, with the per-call outputs reset
NoRet == "none"
Eng == [variant |-> variant, heap |-> heap, entities |-> entities, grid |-> grid,
        nextId |-> nextId, listeners |-> listeners, subs |-> subs,
        systems |-> systems, input |-> input, player |-> player,
        issued |-> issued, Tiles |-> Tiles, plugins |-> plugins, ran |-> ran,
        response |-> response,
        events |-> <<>>, trace |-> <<>>, log |-> <<>>, threw |-> FALSE,
        cut |-> FALSE, ret |-> NoRet, path |-> "thrown", calls |-> 0,
        depth |-> 1, deep |-> 1]

\* an entity object is alive while the Map or a grid cell refers to it
Referenced(st, k) ==
  \/ k \in st.entities
  \/ \E c \in Cells : st.grid[c].ground = k \/ st.grid[c].actor = k

Store(st) ==
  /\ heap' = [k \in 1 .. MaxId |-> IF Referenced(st, k) THEN st.heap[k] ELSE Free]
  /\ entities' = st.entities
  /\ grid' = st.grid
  /\ nextId' = st.nextId
  /\ issued' = st.issued
  /\ listeners' = st.listeners
  /\ subs' = st.subs

\* ----------------------------------------------------------------- actions
Init0 ==
  /\ heap = [k \in 1 .. MaxId |-> Free]
  /\ entities = {}
  /\ grid = [c \in Cells |-> EmptyCell]
  /\ nextId = 1
  /\ systems = <<"MovementSystem">>
  /\ Tiles = CoreTiles
  /\ selectedTile = CoreTiles[1]
  /\ hover = NoHover
  /\ enabled = TRUE
  /\ listeners = [t \in EventTypes |->
                    IF t = "afterTick"
                    THEN <<[fn |-> "editorAfterTick", priority |-> DefaultPriority, n |-> 1]>>
                    ELSE <<>>]
  /\ subs = 1
  /\ input = [dx |-> 0, dy |-> 0]
  /\ player = 0
  /\ issued = {}
  /\ plugins = <<>>
  /\ ran = <<>>
  /\ last = [op |-> "init"]

\* the repository keeps two copies of the engine
Variants == {"script.js", "part_000"}
\* no plugin list is served: fetch(this.path) rejects
NoResponse == [ok |-> FALSE, text |-> <<>>]
Init == Init0 /\ variant = "script.js" /\ response = NoResponse
InitPart000 == Init0 /\ variant = "part_000" /\ response = NoResponse

GridVars == <<variant, heap, entities, grid, nextId, issued>>
EditorVars == <<Tiles, selectedTile, hover, enabled>>
LoopVars == <<systems, input, player>>
LoaderVars == <<plugins, ran, response>>

AddEntity(data, x, y) ==
  /\ nextId <= MaxId
  /\ LET st == addEntity(Eng, data, x, y)
     IN /\ Store(st)
        /\ last' = [op |-> "addEntity", ret |-> st.ret]
  /\ UNCHANGED <<variant, EditorVars, LoopVars, LoaderVars>>

RemoveEntity(id) ==
  /\ LET st == removeEntity(Eng, id)
     IN /\ Store(st)
        /\ last' = [op |-> "removeEntity"]
  /\ UNCHANGED <<variant, EditorVars, LoopVars, LoaderVars>>

MoveEntity(id, dx, dy) ==
  /\ LET st == moveEntity(Eng, id, dx, dy)
     IN /\ Store(st)
        /\ last' = [op |-> "moveEntity", ret |-> st.ret, path |-> st.path,
                    events |-> st.events, deep |-> st.deep]
  /\ UNCHANGED <<variant, EditorVars, LoopVars, LoaderVars>>

\* editor: canvas mousemove, hotbar click, "e" key, canvas mousedown
MouseMove(c) ==
  /\ hover' = c
  /\ hover' # hover
  /\ last' = [op |-> "mousemove"]
  /\ UNCHANGED <<variant, heap, entities, grid, nextId, issued, listeners,
                 subs, Tiles, selectedTile, enabled, LoopVars, LoaderVars>>

SelectTile(i) ==
  /\ selectedTile' = Tiles[i]
  /\ selectedTile' # selectedTile
  /\ last' = [op |-> "selectTile"]
  /\ UNCHANGED <<variant, heap, entities, grid, nextId, issued, listeners,
                 subs, Tiles, hover, enabled, LoopVars, LoaderVars>>

ToggleEditor ==
  /\ enabled' = ~enabled
  /\ last' = [op |-> "toggleEditor"]
  /\ UNCHANGED <<variant, heap, entities, grid, nextId, issued, listeners,
                 subs, Tiles, selectedTile, hover, LoopVars, LoaderVars>>

mousedown(st) ==
  IF ~enabled \/ hover = NoHover THEN st
  ELSE IF st.variant = "part_000" /\ st.grid[hover].actor # Null THEN st
  ELSE addEntity(st, selectedTile, hover[1], hover[2])

MouseDown ==
  /\ nextId <= MaxId
  /\ LET st == mousedown(Eng)
     IN /\ Store(st)
        /\ last' = [op |-> "mousedown", ret |-> st.ret]
  /\ UNCHANGED <<variant, EditorVars, LoopVars, LoaderVars>>

\* registerTile called by any script of the page; the hotbar is not
\* refreshed and the selection stays
RegisterTile(tile) ==
  /\ Len(Tiles) < Len(CoreTiles) + MaxTiles
  /\ Tiles' = registerTile(Tiles, tile)
  /\ last' = [op |-> "registerTile"]
  /\ UNCHANGED <<GridVars, listeners, subs, selectedTile, hover, enabled,
                 LoopVars, LoaderVars>>

\* the loader's methods
StoreLoader(st) ==
  /\ Store(st)
  /\ Tiles' = st.Tiles
  /\ plugins' = st.plugins
  /\ ran' = st.ran
  /\ UNCHANGED <<variant, selectedTile, hover, enabled, LoopVars, response>>

LoadPlugin(file) ==
  /\ Len(ran) < MaxLoads
  /\ LET st == loadPlugin(Eng, file)
     IN /\ StoreLoader(st)
        /\ last' = [op |-> "loadPlugin", log |-> st.log, threw |-> st.threw]

LoadAll(saved) ==
  /\ Len(ran) < MaxLoads
  /\ LET st == loadAll(Eng, saved)
     IN /\ StoreLoader(st)
        /\ last' = [op |-> "loadAll", log |-> st.log, threw |-> st.threw]

FetchPluginList ==
  /\ last' = [op |-> "fetchPluginList", ret |-> fetchPluginList(response)]
  /\ UNCHANGED <<GridVars, listeners, subs, EditorVars, LoopVars, LoaderVars>>

\* coordinates passed to addEntity: every cell, and one coordinate beyond
\* each of the four edges
Coords == Cells \cup {<<-1, 0>>, <<W, 0>>, <<0, -1>>, <<0, H>>}
\* vectors passed to moveEntity: the four the arrow keys produce, and (0,0)
Dirs == {<<0, -1>>, <<0, 1>>, <<-1, 0>>, <<1, 0>>, <<0, 0>>}
Ids == 1 .. MaxId

\* the engine's public API, called with any arguments
Next ==
  \/ \E d \in PlainData, c \in Coords : AddEntity(d, c[1], c[2])
  \/ \E id \in Ids : RemoveEntity(id)
  \/ \E id \in Ids, d \in Dirs : MoveEntity(id, d[1], d[2])

Spec == Init /\ [][Next]_vars
SpecPart000 == InitPart000 /\ [][Next]_vars

\* the map editor placing tile templates, with the API
\* calls that move and remove the entities placed
NextEditor ==
  \/ \E c \in Cells : MouseMove(c)
  \/ \E i \in 1 .. Len(Tiles) : SelectTile(i)
  \/ ToggleEditor
  \/ MouseDown
  \/ \E id \in Ids : RemoveEntity(id)
  \/ \E id \in Ids, d \in Dirs : MoveEntity(id, d[1], d[2])

\* the event bus used by its clients: on() and emit() with any arguments
On(type, fn, priority) ==
  /\ subs < MaxListeners + 1
  /\ LET b == on(Eng, type, fn, priority)
     IN listeners' = b.listeners /\ subs' = b.subs
  /\ last' = [op |-> "on"]
  /\ UNCHANGED <<GridVars, EditorVars, LoopVars, LoaderVars>>

Emit(type) ==
  /\ subs <= MaxListeners + 1
  /\ LET st == emit(Eng, type, Null)
     IN /\ listeners' = st.listeners /\ subs' = st.subs
        /\ last' = [op |-> "emit", type |-> type, trace |-> st.trace,
                    threw |-> st.threw, cut |-> st.cut]
  /\ UNCHANGED <<GridVars, EditorVars, LoopVars, LoaderVars>>

\* clients subscribe to an event that has no handler yet and to the one the
\* editor already handles
BusTypes == {"entityMoved", "afterTick"}

NextBus ==
  \/ \E t \in BusTypes, fn \in ClientFns, p \in Priorities : On(t, fn, p)
  \/ \E t \in BusTypes : Emit(t)

SpecBus == Init /\ [][NextBus]_vars

\* the game: setup (borders, then the player), systems added, arrow keys,
\* and the engine ticking once the player exists
SetupWall(c) ==
  /\ player = Null
  /\ AddEntity([id |-> NoField, solid |-> TRUE], c[1], c[2])

CreatePlayer(c) ==
  /\ player = Null
  /\ nextId <= MaxId
  /\ LET st == addEntity(Eng, [id |-> NoField, solid |-> FALSE], c[1], c[2])
     IN /\ Store(st)
        /\ player' = st.ret
        /\ last' = [op |-> "addEntity", ret |-> st.ret]
  /\ UNCHANGED <<variant, EditorVars, systems, input, LoaderVars>>

AddSystem(sys) ==
  /\ Len(systems) < MaxSystems + 1
  /\ systems' = Append(systems, sys)
  /\ last' = [op |-> "addSystem"]
  /\ UNCHANGED <<GridVars, listeners, subs, EditorVars, input, player, LoaderVars>>

Keys == {"ArrowUp", "ArrowDown", "ArrowLeft", "ArrowRight"}
KeyDown(key) ==
  /\ input' = CASE key = "ArrowUp" -> [dx |-> 0, dy |-> -1]
                 [] key = "ArrowDown" -> [dx |-> 0, dy |-> 1]
                 [] key = "ArrowLeft" -> [dx |-> -1, dy |-> 0]
                 [] key = "ArrowRight" -> [dx |-> 1, dy |-> 0]
  /\ last' = [op |-> "keydown"]
  /\ UNCHANGED <<GridVars, listeners, subs, EditorVars, systems, player, LoaderVars>>

Tick ==
  /\ player # Null
  /\ LET st == tick(Eng)
     IN /\ Store(st)
        /\ input' = st.input
        /\ last' = [op |-> "tick", log |-> st.log, events |-> st.events,
                    threw |-> st.threw]
  /\ UNCHANGED <<variant, EditorVars, systems, player, LoaderVars>>

NextTick ==
  \/ \E c \in Cells : SetupWall(c)
  \/ \E c \in Cells : CreatePlayer(c)
  \/ \E sys \in Systems : AddSystem(sys)
  \/ \E key \in Keys : KeyDown(key)
  \/ Tick

SpecTick == Init /\ [][NextTick]_vars

\* the game as the host runs it: one loop() call per animation frame
Loop ==
  /\ player # Null
  /\ LET st == loop(Eng)
     IN /\ Store(st)
        /\ input' = st.input
        /\ last' = [op |-> "loop", calls |-> st.calls, path |-> st.path,
                    events |-> st.events, threw |-> st.threw]
  /\ UNCHANGED <<variant, EditorVars, systems, player, LoaderVars>>

NextLoop ==
  \/ \E c \in Cells : SetupWall(c)
  \/ \E c \in Cells : CreatePlayer(c)
  \/ \E sys \in Systems : AddSystem(sys)
  \/ \E key \in Keys : KeyDown(key)
  \/ Loop

SpecLoop == Init /\ [][NextLoop]_vars

\* attribute objects a caller of addEntity passes: with or without the
\* locked flag, and the editor's copies of the core tile templates
PlaceData ==
  {[id |-> NoField, solid |-> s, locked |-> l] : s, l \in BOOLEAN}
    \cup {WallTile, FloorTile}

\* placement and removal through the engine's API
NextPlace ==
  \/ \E d \in PlaceData, c \in Coords : AddEntity(d, c[1], c[2])
  \/ \E id \in Ids : RemoveEntity(id)

SpecPlace == Init /\ [][NextPlace]_vars

\* the tile registry and the hotbar that selects from it
NextTiles ==
  \/ \E t \in TileDefs : RegisterTile(t)
  \/ \E i \in 1 .. Len(Tiles) : SelectTile(i)

SpecTiles == Init /\ [][NextTiles]_vars

\* plugin list texts: one file per line
RECURSIVE JoinLines(_)
JoinLines(files) ==
  IF files = <<>> THEN <<>>
  ELSE files[1] \o <<NL>> \o JoinLines(Tail(files))

ListFiles == {IceFile, MissingFile, BrokenFile}
FileLists == UNION {[1 .. n -> ListFiles] : n \in 0 .. MaxFiles}
ListResponses ==
  {NoResponse} \cup {[ok |-> TRUE, text |-> JoinLines(fs)] : fs \in FileLists}

\* the loader working on the engine of the running game
InitLoader == Init0 /\ variant = "script.js" /\ response \in ListResponses

NextLoader ==
  \/ \E c \in Cells : CreatePlayer(c)
  \/ \E f \in PluginFiles : LoadPlugin(f)
  \/ \E saved \in SUBSET ListFiles : LoadAll(saved)

SpecLoader == InitLoader /\ [][NextLoader]_vars

\* fetchPluginList on any plugin list text
Texts == UNION {[1 .. n -> Symbols] : n \in 0 .. MaxLen}
Responses == {NoResponse} \cup {[ok |-> TRUE, text |-> t] : t \in Texts}

InitFetch == Init0 /\ variant = "script.js" /\ response \in Responses

NextFetch == FetchPluginList

SpecFetch == InitFetch /\ [][NextFetch]_vars

\* the ice plugin at work on the game: walls, then the player, created
\* with a recorded slide direction among its attributes (one of two unit
\* vectors, or the zero vector); the plugin, loaded once or more, flags the
\* player as ice; moveEntity is called for the player with any vector
SlideDirs == {<<1, 0>>, <<0, -1>>, <<0, 0>>}
SliderData(dir) == [id |-> NoField, solid |-> FALSE, iceDir |-> dir]

CreateSlider(c, dir) ==
  /\ player = Null
  /\ nextId <= MaxId
  /\ LET st == addEntity(Eng, SliderData(dir), c[1], c[2])
     IN /\ Store(st)
        /\ player' = st.ret
        /\ last' = [op |-> "addEntity", ret |-> st.ret]
  /\ UNCHANGED <<variant, EditorVars, systems, input, LoaderVars>>

NextIce ==
  \/ \E c \in Cells : SetupWall(c)
  \/ \E c \in Cells, dir \in SlideDirs : CreateSlider(c, dir)
  \/ LoadPlugin(IceFile)
  \/ \E d \in Dirs : player # Null /\ MoveEntity(player, d[1], d[2])

SpecIce == Init /\ [][NextIce]_vars

SpecEditor == Init /\ [][NextEditor]_vars
SpecEditorPart000 == InitPart000 /\ [][NextEditor]_vars

\* ================================================================== claims
\* the call returned v (and did not leave by an exception)
Returned(st, v) == st.path # "thrown" /\ st.ret = v
\* the cell an entity would move to
Target(id, d) == <<heap[id].x + d[1], heap[id].y + d[2]>>
SolidGroundAt(c) == grid[c].ground # Null /\ heap[grid[c].ground].solid
SlotRefs(c) == {grid[c].ground, grid[c].actor} \ {Null}

\* C1: every entity referenced by a grid cell's ground or actor slot is in
\* the entity table, under the same id as the entity's own id field.
C1_CellEntitiesInTable ==
  \A c \in Cells : \A k \in SlotRefs(c) : k \in entities /\ heap[k].id = NumId(k)

\* C2: every entity in the entity table is referenced by the cell at its own
\* (x,y), in the slot of its layer (ground if solid, actor otherwise), and by
\* no other cell or slot.
C2_TableEntitiesInOwnSlot ==
  \A k \in entities :
    LET e == heap[k]
        pos == <<e.x, e.y>>
    IN /\ IF e.solid THEN grid[pos].ground = k ELSE grid[pos].actor = k
       /\ \A c \in Cells :
            /\ grid[c].ground = k => c = pos /\ e.solid
            /\ grid[c].actor = k => c = pos /\ ~e.solid

\* C3: whenever moveEntity (of either copy of the engine) returns true, the
\* entity is in the actor slot of the target cell and that cell's ground
\* slot is empty or holds a non-solid entity.
C3_MovedOntoNonSolidGround ==
  \A v \in Variants, id \in Ids, d \in Dirs :
    LET st == moveEntity([Eng EXCEPT !.variant = v], id, d[1], d[2])
    IN Returned(st, TRUE) =>
         LET c == Target(id, d)
         IN /\ c \in Cells
            /\ st.grid[c].actor = id
            /\ st.grid[c].ground = Null \/ ~st.heap[st.grid[c].ground].solid

C3_Witness ==
  /\ last.op = "moveEntity" /\ last.ret = TRUE
  /\ \E c \in Cells : SolidGroundAt(c)

\* C4: a moveEntity call whose target lies outside [0,W) x [0,H) returns
\* false, leaves every entity and every grid cell unchanged and publishes
\* neither entityBlocked nor entityMoved.
C4_OutOfBoundsMoveIsSilent ==
  \A id \in entities, d \in Dirs :
    ~InBounds(Target(id, d)[1], Target(id, d)[2]) =>
      LET st == moveEntity(Eng, id, d[1], d[2])
      IN /\ Returned(st, FALSE)
         /\ st.heap = heap /\ st.grid = grid /\ st.entities = entities
         /\ st.events = <<>>

C4_Witness ==
  /\ last.op = "moveEntity" /\ last.path = "outOfBounds"
  /\ last.ret = FALSE /\ last.events = <<>>

\* C5: a moveEntity call whose target cell is inside the grid and has a
\* solid ground occupant publishes entityBlocked, with the entity as
\* payload, exactly once, returns false and leaves the entities and the
\* grid unchanged.
C5_BlockedMovePublishesOnce ==
  \A id \in entities, d \in Dirs :
    (Target(id, d) \in Cells /\ SolidGroundAt(Target(id, d))) =>
      LET st == moveEntity(Eng, id, d[1], d[2])
      IN /\ Returned(st, FALSE)
         /\ st.heap = heap /\ st.grid = grid /\ st.entities = entities
         /\ Len(st.events) = 1
         /\ st.events[1].type = "entityBlocked" /\ st.events[1].data = id

\* C6: a moveEntity call on a known entity whose target cell is inside the
\* grid and has no solid ground takes the entity out of the actor slot of
\* its prior cell, sets its (x,y) to the target, puts it in the target
\* cell's actor slot, publishes entityMoved once, with the entity as
\* payload and in the state these updates leave, and returns true.
C6_SuccessfulMove ==
  \A id \in entities, d \in Dirs :
    (Target(id, d) \in Cells /\ ~SolidGroundAt(Target(id, d))) =>
      LET st == moveEntity(Eng, id, d[1], d[2])
          old == <<heap[id].x, heap[id].y>>
          c == Target(id, d)
      IN /\ Returned(st, TRUE)
         /\ old # c => st.grid[old].actor # id
         /\ (old # c /\ grid[old].actor = id) => st.grid[old].actor = Null
         /\ st.heap[id].x = c[1] /\ st.heap[id].y = c[2]
         /\ st.grid[c].actor = id
         /\ st.events = <<[type |-> "entityMoved", data |-> id,
                           x |-> c[1], y |-> c[2], grid |-> st.grid]>>

C6_Witness ==
  /\ last.op = "moveEntity" /\ last.path = "moved"
  /\ Len(last.events) = 1 /\ last.events[1].type = "entityMoved"
  /\ \E c \in Cells : grid[c] = EmptyCell

\* priority descending, ties in the order of the on() calls
Before(l1, l2) ==
  \/ l1.priority > l2.priority
  \/ l1.priority = l2.priority /\ l1.n < l2.n
PlainHandlers(type) ==
  \A i \in 1 .. Len(listeners[type]) :
    listeners[type][i].fn \notin Subscribers \cup {"thrower"}

\* C7: emit(type) invokes the handlers of the event in descending priority
\* order, handlers of equal priority in the order they were subscribed; an
\* emit whose handlers neither subscribe nor throw invokes every one of them
\* in that order.
C7_EmitInPriorityOrder ==
  \A t \in EventTypes :
    LET tr == emit(Eng, t, Null).trace
    IN /\ \A i, j \in 1 .. Len(tr) :
            (i < j /\ tr[i].n # tr[j].n) => Before(tr[i], tr[j])
       /\ PlainHandlers(t) => tr = listeners[t]

C7_Witness ==
  /\ last.op = "emit" /\ ~last.threw /\ ~last.cut
  /\ \E i, j, k \in 1 .. Len(last.trace) :
       /\ i < j /\ j < k
       /\ last.trace[i].priority > last.trace[j].priority
       /\ last.trace[j].priority = last.trace[k].priority
       /\ last.trace[i].n > last.trace[j].n

\* C8: one emit call invokes exactly the handlers subscribed to the event
\* when the emit started, each once, whatever the handlers subscribe
\* during the emit.
C8_EmitRunsSnapshot ==
  \A t \in EventTypes :
    LET st == emit(Eng, t, Null)
    IN (~st.threw /\ ~st.cut) => st.trace = listeners[t]

\* C9: when a handler throws during emit, every remaining handler of the
\* event is still invoked and the fault does not leave emit.
C9_ThrowingHandlerIsolated ==
  \A t \in EventTypes :
    (\A i \in 1 .. Len(listeners[t]) : listeners[t][i].fn \notin Subscribers) =>
      LET st == emit(Eng, t, Null)
      IN ~st.threw /\ st.trace = listeners[t]

\* what a tick over the systems sys must log: each update called and
\* returned, in order, then afterTick
RECURSIVE UpdatesOf(_, _)
UpdatesOf(sys, i) ==
  IF i > Len(sys) THEN <<>>
  ELSE <<<<"update", sys[i], i>>, <<"return", sys[i], i>>>> \o UpdatesOf(sys, i + 1)
AfterTicks(evs) == {i \in 1 .. Len(evs) : evs[i].type = "afterTick"}

\* C10: one tick calls update of every registered system exactly once, in
\* the order the systems were added, and publishes afterTick exactly once,
\* after the last system has returned.
C10_TickRunsSystemsThenAfterTick ==
  LET st == tick(Eng)
  IN /\ ~st.threw
     /\ st.log = UpdatesOf(systems, 1) \o <<<<"emit", "afterTick", 0>>>>
     /\ Cardinality(AfterTicks(st.events)) = 1
     /\ st.events[Len(st.events)].type = "afterTick"
     /\ st.trace = listeners["afterTick"]

C10_Witness ==
  /\ last.op = "tick" /\ ~last.threw
  /\ Len(systems) = 3 /\ systems[1] # systems[2]
  /\ Len(last.events) = 2

SlotFor(data, c) == IF data.solid THEN grid[c].ground ELSE grid[c].actor

\* C12: when addEntity places an entity on a layer slot held by a
\* non-locked entity, the previous occupant is gone from the entity table
\* and from every cell, and the slot holds the new entity.
C12_PlacementRemovesOccupant ==
  nextId <= MaxId =>
    \A d \in PlaceData, c \in Cells :
      LET k == SlotFor(d, c)
          st == addEntity(Eng, d, c[1], c[2])
      IN (k # Null /\ ~heap[k].locked) =>
           /\ k \notin st.entities
           /\ \A c2 \in Cells : st.grid[c2].ground # k /\ st.grid[c2].actor # k
           /\ st.ret \in st.entities
           /\ st.ret = IF d.solid THEN st.grid[c].ground ELSE st.grid[c].actor

\* C13: addEntity on a layer slot (ground for a solid entity, actor
\* otherwise) held by a locked entity fails and leaves the grid, the entity
\* table and the id counter unchanged.
C13_LockedOccupantBlocksPlacement ==
  nextId <= MaxId =>
    \A d \in PlaceData, c \in Cells :
      LET k == SlotFor(d, c)
          st == addEntity(Eng, d, c[1], c[2])
      IN (k # Null /\ heap[k].locked) =>
           /\ st.ret = Null
           /\ st.grid = grid /\ st.entities = entities /\ st.heap = heap
           /\ st.nextId = nextId

\* C14: a successful addEntity returns an id greater than every id returned
\* before (so never one that was returned and removed), the entity created
\* carries the returned id in its id field whatever attributes are passed,
\* and an out-of-bounds addEntity returns null and consumes no id.
C14_FreshIncreasingIds ==
  nextId <= MaxId =>
    \A d \in PlaceData, c \in Coords :
      LET st == addEntity(Eng, d, c[1], c[2])
      IN IF InBounds(c[1], c[2])
         THEN /\ st.ret # Null
              /\ \A i \in issued : st.ret > i
              /\ st.ret \in st.entities
              /\ st.heap[st.ret].id = NumId(st.ret)
         ELSE /\ st.ret = Null
              /\ st.nextId = nextId /\ st.issued = issued
              /\ st.entities = entities /\ st.grid = grid

\* C15: removeEntity with an id that is not in the entity table changes
\* nothing; with a known id, afterwards the table has no entry for it, no
\* slot of any cell refers to the entity, and every other entity and every
\* slot that held another entity is unchanged.
C15_RemoveDetachesEntity ==
  \A id \in Ids :
    LET st == removeEntity(Eng, id)
    IN IF id \notin entities
       THEN st.entities = entities /\ st.grid = grid /\ st.heap = heap
       ELSE /\ st.entities = entities \ {id}
            /\ \A c \in Cells :
                 /\ st.grid[c].ground # id /\ st.grid[c].actor # id
                 /\ grid[c].ground # id => st.grid[c].ground = grid[c].ground
                 /\ grid[c].actor # id => st.grid[c].actor = grid[c].actor
            /\ \A k \in Ids \ {id} : st.heap[k] = heap[k]

TileIds(tiles) == {tiles[i].id : i \in 1 .. Len(tiles)}
UniqueTileIds(tiles) ==
  \A i, j \in 1 .. Len(tiles) : tiles[i].id = tiles[j].id => i = j

\* C16: registering a tile whose id is already in the registry leaves the
\* registry unchanged, in the array registry and in the Map registry: the
\* first definition stays the only one stored under that id.
C16_DuplicateTileRejected ==
  \A t \in TileDefs :
    t.id \in TileIds(Tiles) =>
      /\ registerTile(Tiles, t) = Tiles
      /\ UniqueTileIds(Tiles) => registerTileMap(Tiles, t) = Tiles

Count(seq, f) == Cardinality({i \in 1 .. Len(seq) : seq[i] = f})
\* the files loadPlugin was called with, in order
Attempts(log) ==
  LET IsCall(entry) == entry[1] = "loadPlugin"
      calls == SelectSeq(log, IsCall)
  IN [i \in 1 .. Len(calls) |-> calls[i][2]]
Faulty == {MissingFile, BrokenFile}

\* C17: each file is at most once in the loader's list of active plugins
\* and its entry point has been called at most once, and loadPlugin on a
\* file that is already active changes nothing.
C17_LoadIsIdempotent ==
  /\ \A f \in PluginFiles : Count(plugins, f) <= 1 /\ Count(ran, f) <= 1
  /\ \A f \in PluginFiles :
       Count(plugins, f) > 0 =>
         LET st == loadPlugin(Eng, f)
         IN /\ st.plugins = plugins /\ st.ran = ran
            /\ st.Tiles = Tiles /\ st.listeners = listeners

\* C18: a plugin whose import or whose entry point throws is not recorded
\* as active, the fault leaves neither loadPlugin nor loadAll, and every
\* requested file that follows it in the list is still loaded.
C18_LoadFaultIsolated ==
  /\ \A f \in Faulty :
       LET st == loadPlugin(Eng, f)
       IN ~st.threw /\ st.plugins = plugins
  /\ \A saved \in SUBSET ListFiles :
       LET st == loadAll(Eng, saved)
           files == fetchPluginList(response)
       IN /\ ~st.threw
          /\ \A f \in Faulty : Count(st.plugins, f) = Count(plugins, f)
          /\ \A i, j \in 1 .. Len(files) :
               (/\ i < j
                /\ files[i] \in Faulty /\ files[i] \in saved
                /\ files[j] = IceFile /\ files[j] \in saved) =>
                 /\ Count(st.plugins, IceFile) > Count(plugins, IceFile)
                 /\ Count(st.ran, IceFile) > Count(ran, IceFile)

C18_Witness ==
  /\ last.op = "loadAll" /\ ~last.threw
  /\ \E i, j \in 1 .. Len(last.log) :
       /\ i < j
       /\ last.log[i][1] = "failed" /\ last.log[j] = <<"loaded", IceFile>>
  /\ plugins = <<IceFile>>

\* C19: for every requested set, the empty one included, loadAll calls
\* loadPlugin for exactly the files of the fetched list that are members of
\* the requested set, in list order.
C19_LoadAllLoadsRequested ==
  \A saved \in SUBSET ListFiles :
    LET Requested(f) == f \in saved
    IN Attempts(loadAll(Eng, saved).log)
         = SelectSeq(fetchPluginList(response), Requested)

\* the lines of a text, as ranges of positions: a line starts at the
\* beginning or after a newline, ends at the end or before a newline and
\* holds no newline
LineStarts(t) == {a \in 1 .. Len(t) + 1 : a = 1 \/ t[a - 1] = NL}
LineEnd(t, a) ==
  CHOOSE b \in a - 1 .. Len(t) :
    /\ \A i \in a .. b : t[i] # NL
    /\ b = Len(t) \/ t[b + 1] = NL
\* positions of a line holding something other than whitespace
Inked(t, a) == {i \in a .. LineEnd(t, a) : t[i] \notin Whitespace}
Min(S) == CHOOSE i \in S : \A j \in S : i <= j
Max(S) == CHOOSE i \in S : \A j \in S : i >= j
\* the lines a plugin list keeps: not blank, first non-blank symbol not "#"
KeptStarts(t) ==
  {a \in LineStarts(t) : Inked(t, a) # {} /\ t[Min(Inked(t, a))] # "#"}
ExpectedList(t) ==
  LET K == KeptStarts(t)
      Nth(n) == CHOOSE a \in K : Cardinality({b \in K : b < a}) = n - 1
  IN [n \in 1 .. Cardinality(K) |->
        SubSeq(t, Min(Inked(t, Nth(n))), Max(Inked(t, Nth(n))))]

\* C20: fetchPluginList returns, in order and trimmed, exactly the lines of
\* the list text that are not blank and whose first non-blank symbol is
\* not "#"; when the fetch fails it returns the empty list.
C20_PluginListParsed ==
  fetchPluginList(response) =
    IF response.ok THEN ExpectedList(response.text) ELSE <<>>

C20_Witness ==
  /\ last.op = "fetchPluginList" /\ last.ret = <<<<"a">>>>
  /\ response.ok /\ response.text[1] = " "
  /\ \E i \in 1 .. Len(response.text) : response.text[i] = "#"

\* C21: MovementSystem.update with a nonzero pending input vector calls
\* moveEntity once, for the player and with that vector, and leaves the
\* vector at (0,0) whether the move succeeded, was blocked, was out of
\* bounds or found no entity; the next update without new input calls
\* moveEntity no more.  With a zero vector it calls nothing.
C21_InputConsumedOnce ==
  LET st == MovementSystem_update(Eng)
  IN IF input = NoInput
     THEN st.calls = 0 /\ st.grid = grid /\ st.heap = heap
     ELSE LET mv == moveEntity(Eng, player, input.dx, input.dy)
              again == MovementSystem_update(st)
          IN /\ ~st.threw /\ st.calls = 1
             /\ st.path \in {"unknown", "outOfBounds", "blocked", "moved"}
             /\ st.ret = mv.ret /\ st.path = mv.path
             /\ st.heap = mv.heap /\ st.grid = mv.grid /\ st.events = mv.events
             /\ st.input = NoInput
             /\ again.calls = 1 /\ again.events = st.events
             /\ again.heap = st.heap /\ again.grid = st.grid

C21_Witness ==
  /\ last.op = "tick" /\ ~last.threw
  /\ Len(last.events) = 2 /\ last.events[1].type = "entityBlocked"
  /\ input = NoInput

\* C22: no cell holds both an entity in its actor slot and a solid entity
\* in its ground slot.
C22_NoActorOnSolidGround ==
  \A c \in Cells : ~(grid[c].actor # Null /\ SolidGroundAt(c))

\* a cell an actor can be moved onto
FreeCell(c) == c \in Cells /\ ~SolidGroundAt(c)
Step(c, dir, k) == <<c[1] + k * dir[1], c[2] + k * dir[2]>>
LongestSide == IF W > H THEN W ELSE H
\* where a slide from cell c along dir ends: the last cell reached through
\* free cells only, the next one being outside the grid or on solid ground
SlideEnd(c, dir) ==
  CHOOSE q \in Cells :
    \E k \in 0 .. LongestSide :
      /\ q = Step(c, dir, k)
      /\ \A j \in 1 .. k : FreeCell(Step(c, dir, j))
      /\ ~FreeCell(Step(c, dir, k + 1))

\* C23: with the ice plugin loaded, moveEntity on an entity that carries
\* the ice flag and a nonzero slide direction returns: no nested call is
\* cut off by the stack, the nesting is no deeper than the longest side of
\* the grid plus one, a call that cannot make its own move makes no nested
\* call, and after a call that can the entity is in the last free cell
\* along the slide direction, in that cell's actor slot.
C23_IceSlideTerminates ==
  Count(plugins, IceFile) > 0 =>
    \A id \in entities, d \in Dirs :
      LET e == heap[id]
          st == moveEntity(Eng, id, d[1], d[2])
      IN (e.ice /\ e.iceDir # NoDir /\ e.iceDir # <<0, 0>>) =>
           /\ ~st.threw /\ ~st.cut
           /\ st.deep <= LongestSide + 1
           /\ IF FreeCell(Target(id, d))
              THEN LET q == SlideEnd(Target(id, d), e.iceDir)
                   IN /\ Returned(st, TRUE)
                      /\ st.heap[id].x = q[1] /\ st.heap[id].y = q[2]
                      /\ st.grid[q].actor = id
                      /\ ~FreeCell(Step(q, e.iceDir, 1))
              ELSE /\ Returned(st, FALSE)
                   /\ st.deep = 1
                   /\ st.heap = heap /\ st.grid = grid

C23_Witness ==
  /\ last.op = "moveEntity" /\ last.path = "moved" /\ last.deep = LongestSide + 1
  /\ Count(plugins, IceFile) > 0
  /\ \E i, j \in 1 .. Len(last.events) :
       /\ i < j
       /\ last.events[i].type = "entityMoved" /\ last.events[j].type = "entityMoved"
       /\ last.events[i].data = last.events[j].data
       /\ <<last.events[i].x, last.events[i].y>> # <<last.events[j].x, last.events[j].y>>
  /\ \E c \in Cells : SolidGroundAt(c)

====
